---- MODULE Spec2Model ----
(***************************************************************************)
(* run_dbscan of src/models/dbscan_model.py: min-max scaling of the X, Y   *)
(* columns followed by DBSCAN(eps, min_samples).fit and the derivation of  *)
(* the cluster and noise counts.                                           *)
(*                                                                         *)
(* MinMaxScaler and DBSCAN are scikit-learn's: the scaler's fit_transform,  *)
(* the parameter validation of fit, radius_neighbors, the core-sample test *)
(* and the labelling loop dbscan_inner are modelled as the library runs     *)
(* them at the call sites of run_dbscan.                                   *)
(*                                                                         *)
(* Coordinates are integers; a scaled coordinate is the exact rational     *)
(* num / den, kept as its numerator in df_scaled and its denominator in    *)
(* data_range.  eps is the exact rational eps / eps_den, and eps_den is     *)
(* EpsDen except in Scenario A.  Indices are 1-based (Python index k is     *)
(* k + 1 here); labels are the integers of labels_: -1 for noise, 0, 1,     *)
(* ... for clusters.                                                       *)
(*                                                                         *)
(* run_dbscan sits behind st.cache_data; the entries of that cache, the     *)
(* calls that follow one another, and the summaries the page computes from  *)
(* the labels (get_clustering_metrics of the same file,                     *)
(* calculate_cluster_stats and get_cluster_centers of                       *)
(* src/data/processor.py) are part of the model.                            *)
(***************************************************************************)
EXTENDS Integers, Sequences, FiniteSets, TLC

\* ---- bounds of the model ------------------------------------------------
MaxN == 3          \* longest point sequence drawn as input
MaxCoord == 1      \* raw coordinates are drawn from 0..MaxCoord
EpsDen == 2        \* eps is drawn in steps of 1/EpsDen
MaxEpsNum == 3     \* largest eps drawn is MaxEpsNum/EpsDen

Noise == 0 - 1

\* the non-finite floats a coordinate can hold.  Finite coordinates of the
\* model are >= 0; these two negative values stand for nan and for +/-inf
\* and never enter the arithmetic
NaN == 0 - 1
Inf == 0 - 2

Coords == 0..MaxCoord
Point2D == Coords \X Coords
SeqsUpTo(S, n) == UNION {[1..k -> S] : k \in 0..n}
EpsValues == 0..MaxEpsNum
MinSamplesValues == 0..MaxN

\* two dense ends, (0,1) with two points at (0,0) and (2,1) with two points at
\* (2,2), and the point (1,1) half way between the ends
BridgePoints == <<<<0, 0>>, <<0, 0>>, <<0, 1>>, <<1, 1>>, <<2, 1>>, <<2, 2>>, <<2, 2>>>>
\* four points in a row, each within eps of the next only, and one point away
\* from the row
ChainPoints == <<<<0, 0>>, <<1, 0>>, <<2, 0>>, <<3, 0>>, <<0, 1>>>>
Arrangements(base) ==
    {[k \in DOMAIN base |-> base[p[k]]] : p \in Permutations(DOMAIN base)}
BridgeEps == {e \in EpsValues : e > 0 /\ 2 * e <= EpsDen}
BridgeMinSamples == {MaxN, MaxN + 1}

VARIABLES
    df,             \* the X, Y columns of the argument df: a sequence of <<x, y>>
    eps,            \* the argument eps, numerator over eps_den
    eps_den,        \* denominator of the argument eps
    min_samples,    \* the argument min_samples
    pc,             \* position in run_dbscan
    df_scaled,      \* numerators of scaler.fit_transform(df_SF)
    data_range,     \* denominators of the scaled columns
    neighborhoods,  \* radius_neighbors(X): index -> set of indices
    labels,         \* labels_ while fit runs and afterwards
    i,              \* outer scan index of dbscan_inner
    cur,            \* index being visited by the depth-first expansion
    stack,          \* the expansion stack (last element is the top)
    label_num,      \* next cluster id
    result,         \* what run_dbscan returns or raises
    cache,          \* the entries of st.cache_data for run_dbscan: key -> value
    calls,          \* number of calls of run_dbscan so far, this one included
    metrics,        \* what get_clustering_metrics returns or raises
    mean_location_clusters,  \* the centres get_cluster_centers returns
    cluster_df,     \* the rows calculate_cluster_stats returns
    sf_map,         \* the markers create_cluster_center_map puts on the map
    page,           \* the page that hands df to run_dbscan ("none": a direct call)
    len_df,         \* len(df) of the data set the page was given
    sample_size,    \* the page's sample_size
    n_sample        \* number of rows of df_sample

vars == <<df, eps, eps_den, min_samples, pc, df_scaled, data_range, neighborhoods,
          labels, i, cur, stack, label_num, result, cache, calls,
          metrics, mean_location_clusters, cluster_df, sf_map,
          page, len_df, sample_size, n_sample>>

\* what the page computes from the labels once run_dbscan has returned
pagevars == <<metrics, mean_location_clusters, cluster_df, sf_map>>

\* how the page drew the sample it hands to run_dbscan
uivars == <<page, len_df, sample_size, n_sample>>

\* ---- st.cache_data ------------------------------------------------------------
\* The key of a call is the hash of its arguments.  A DataFrame is hashed
\* through its shape and its rows, but one of PandasRowsLarge rows or more
\* only through its shape and the PandasSampleSize rows that
\* obj.sample(n, random_state=0) picks; which rows those are is fixed by the
\* length, and the model takes the first ones.  Both numbers stand for
\* streamlit's much larger ones, scaled to the frames of the model.
PandasRowsLarge == 2
PandasSampleSize == 1
HashedRows(d) ==
    IF Len(d) >= PandasRowsLarge THEN SubSeq(d, 1, PandasSampleSize) ELSE d
CacheKey(d, e, ms) == <<Len(d), HashedRows(d), e, ms>>
\* the value is stored pickled: the entry is a copy nobody else holds
CacheWrite(c, key, value) ==
    [k \in DOMAIN c \cup {key} |-> IF k = key THEN value ELSE c[k]]

\* ---- MinMaxScaler ---------------------------------------------------------
SetMin(S) == CHOOSE m \in S : \A v \in S : m <= v
SetMax(S) == CHOOSE m \in S : \A v \in S : m >= v
\* the values np.nanmin / np.nanmax look at: nan entries are passed over
Column(d, c) == {d[k][c] : k \in DOMAIN d} \ {NaN}
DataMin(d, c) == LET col == Column(d, c) IN IF col = {} THEN NaN ELSE SetMin(col)
DataMax(d, c) == LET col == Column(d, c) IN IF col = {} THEN NaN ELSE SetMax(col)
\* data_max_ - data_min_; nan for a column that holds nothing but nan
\* (DataRangeFromZero: data_min_ left out of the range)
DataRangeFromZero(d, c) == IF Column(d, c) = {} THEN NaN ELSE DataMax(d, c)
DataRange(d, c) ==
    LET col == Column(d, c) IN IF col = {} THEN NaN ELSE SetMax(col) - SetMin(col)

\* _handle_zeros_in_scale: a constant column is divided by 1
\* (HandleZerosKept: the zero range kept as divisor)
HandleZerosKept(r) == r
HandleZerosInScale(r) == IF r = 0 THEN 1 ELSE r

\* data_range_ after the zero handling, per column
ScaleDen(d) ==
    <<HandleZerosInScale(DataRange(d, 1)), HandleZerosInScale(DataRange(d, 2))>>

\* X * scale_ + min_, with scale_ = 1/range and min_ = -data_min * scale_
\* a nan entry stays nan
ScaleCell(v, lo) == IF v = NaN THEN NaN ELSE v - lo
\* (ScaleNumUnshifted: X * scale_ without min_)
ScaleNumUnshifted(d) == [k \in DOMAIN d |-> <<d[k][1], d[k][2]>>]
ScaleNum(d) ==
    LET lo1 == DataMin(d, 1)
        lo2 == DataMin(d, 2)
    IN [k \in DOMAIN d |-> <<ScaleCell(d[k][1], lo1), ScaleCell(d[k][2], lo2)>>]

\* fit_transform of rows that are scaled already, numerators X over the
\* denominators den: the numerators are ScaleNum(X), and the new denominator
\* of a column is its range of numerators, den cancelling, or den itself where
\* that range is 0 and the column is divided by 1
RescaleDen(X, den) ==
    <<IF DataRange(X, 1) = 0 THEN den[1] ELSE ScaleDen(X)[1],
      IF DataRange(X, 2) = 0 THEN den[2] ELSE ScaleDen(X)[2]>>

\* ---- check_array ------------------------------------------------------------
\* force_all_finite="allow-nan" of MinMaxScaler refuses inf only
ContainsInf(X) == \E k \in DOMAIN X : X[k][1] = Inf \/ X[k][2] = Inf
\* force_all_finite=True of DBSCAN.fit refuses nan as well
\* (ContainsNaNIgnored: nan let through)
ContainsNaNIgnored(X) == FALSE
ContainsNaN(X) == \E k \in DOMAIN X : X[k][1] = NaN \/ X[k][2] = NaN

\* ---- radius neighbours ---------------------------------------------------
Sq(v) == v * v

\* greatest common divisor of two denominators (1 where there is none)
RECURSIVE Gcd(_, _)
Gcd(a, b) == IF b <= 0 THEN (IF a <= 0 THEN 1 ELSE a) ELSE Gcd(b, a % b)

\* (WithinEpsOverChebyshev: the larger coordinate difference taken for the
\* distance)
WithinEpsOverChebyshev(X, den, e, eden, a, b) ==
    /\ e >= 0
    /\ Sq(X[a][1] - X[b][1]) * Sq(eden) <= Sq(e) * Sq(den[1])
    /\ Sq(X[a][2] - X[b][2]) * Sq(eden) <= Sq(e) * Sq(den[2])

\* Euclidean distance between scaled rows a and b is <= e/eden: both columns
\* are brought to their least common denominator, and the inequality is
\* multiplied through by its square and by the square of eden
WithinEpsOver(X, den, e, eden, a, b) ==
    LET g == Gcd(den[1], den[2])
        f1 == den[2] \div g
        f2 == den[1] \div g
    IN e >= 0 /\
       (Sq((X[a][1] - X[b][1]) * f1) + Sq((X[a][2] - X[b][2]) * f2)) * Sq(eden)
           <= Sq(e) * Sq(den[1] * f1)
\* the same for an eps given over EpsDen
WithinEps(X, den, e, a, b) == WithinEpsOver(X, den, e, EpsDen, a, b)

\* (RadiusNeighborsEarlier: only rows up to the query point searched)
RadiusNeighborsEarlier(X, den, e, eden) ==
    [a \in DOMAIN X |-> {b \in 1..a : WithinEpsOver(X, den, e, eden, a, b)}]
\* (RadiusNeighborsNoSelf: the query point left out of its own neighbourhood)
RadiusNeighborsNoSelf(X, den, e, eden) ==
    [a \in DOMAIN X |-> {b \in DOMAIN X \ {a} : WithinEpsOver(X, den, e, eden, a, b)}]
RadiusNeighborsOver(X, den, e, eden) ==
    [a \in DOMAIN X |-> {b \in DOMAIN X : WithinEpsOver(X, den, e, eden, a, b)}]
RadiusNeighbors(X, den, e) ==
    [a \in DOMAIN X |-> {b \in DOMAIN X : WithinEps(X, den, e, a, b)}]

\* core_samples: n_neighbors >= min_samples
\* (IsCoreStrict, IsCoreReversed: the comparison slipped)
IsCoreStrict(nb, ms, a) == Cardinality(nb[a]) > ms
IsCoreReversed(nb, ms, a) == Cardinality(nb[a]) <= ms
\* (IsCoreSelfTwice: the point counted once more on top of its neighbourhood)
IsCoreSelfTwice(nb, ms, a) == Cardinality(nb[a]) + 1 >= ms
IsCore(nb, ms, a) == Cardinality(nb[a]) >= ms

\* ---- parameter validation of DBSCAN.fit ----------------------------------
\* eps: Interval(Real, 0, None, closed="neither"); min_samples: Interval(Integral, 1, None, closed="left")
\* (ValidParamsStrict: min_samples = 1 refused)
ValidParamsStrict(e, ms) == e > 0 /\ ms > 1
ValidParams(e, ms) == e > 0 /\ ms >= 1

\* ---- statistics of run_dbscan ------------------------------------------
LabelSet(l) == {l[k] : k \in DOMAIN l}
NClustersRaw(l) == Cardinality(LabelSet(l))
NClusters(l) == Cardinality(LabelSet(l)) - (IF Noise \in LabelSet(l) THEN 1 ELSE 0)
\* (NClustersRaw: the noise label counted as a cluster)
\* (NNoiseZero: count(0) in place of count(-1))
NNoiseZero(l) == Cardinality({k \in DOMAIN l : l[k] = 0})
NNoise(l) == Cardinality({k \in DOMAIN l : l[k] = Noise})

\* ---- dbscan_inner -----------------------------------------------------------
\* `labels[i] == -1`
Unlabelled(l, k) == l[k] = Noise

\* the outer loop's test: `if labels[i] != -1 or not is_core[i]: continue`
\* (StartsClusterAny: the is_core half of the test left out)
StartsClusterAny(nb, ms, l, k) == Unlabelled(l, k)
StartsCluster(nb, ms, l, k) == Unlabelled(l, k) /\ IsCore(nb, ms, k)

\* `if labels[i] == -1: labels[i] = label_num`
\* (VisitLabelsMerging: every labelled point takes the id being assigned)
VisitLabelsMerging(l, c, num) ==
    IF Unlabelled(l, c)
      THEN [k \in DOMAIN l |-> IF k = c \/ l[k] # Noise THEN num ELSE l[k]]
      ELSE l
VisitLabels(l, c, num) == IF Unlabelled(l, c) THEN [l EXCEPT ![c] = num] ELSE l

\* the neighbours the inner for loop pushes when c is visited with labels l:
\* those still labelled -1 once c has its label, and only if c is a core point
\* (PushSetForward: only later indices pushed; PushSetCoreOnly: only core
\* neighbours pushed)
PushSetForward(nb, ms, l, c, num) ==
    IF Unlabelled(l, c) /\ IsCore(nb, ms, c)
      THEN {v \in nb[c] : v > c /\ Unlabelled(VisitLabels(l, c, num), v)}
      ELSE {}
PushSetCoreOnly(nb, ms, l, c, num) ==
    IF Unlabelled(l, c) /\ IsCore(nb, ms, c)
      THEN {v \in nb[c] : IsCore(nb, ms, v) /\ Unlabelled(VisitLabels(l, c, num), v)}
      ELSE {}
PushSet(nb, ms, l, c, num) ==
    IF Unlabelled(l, c) /\ IsCore(nb, ms, c)
      THEN {v \in nb[c] : Unlabelled(VisitLabels(l, c, num), v)}
      ELSE {}

\* stack.back() and stack.pop_back()
\* (StackFront: front() read where back() is meant)
StackFront(st) == st[1]
StackTop(st) == st[Len(st)]
\* (StackPopNone: the popped entry left on the stack)
StackPopNone(st) == st
\* (StackPopAll: the whole stack dropped with the popped entry)
StackPopAll(st) == <<>>
StackPop(st) == SubSeq(st, 1, Len(st) - 1)

\* `label_num += 1`
\* (SkipLabelNum: an id skipped between clusters)
SkipLabelNum(num) == num + 2
NextLabelNum(num) == num + 1

\* radius_neighbors leaves the order of a neighbourhood to the search
\* structure (index order for brute force, traversal order for a tree)
Orders(S) == {s \in [1..Cardinality(S) -> S] : \A a, b \in DOMAIN s : a # b => s[a] # s[b]}

RECURSIVE Ascending(_)
Ascending(S) == IF S = {} THEN <<>> ELSE <<SetMin(S)>> \o Ascending(S \ {SetMin(S)})

\* the `while True` loop of dbscan_inner, neighbourhoods in index order
RECURSIVE ExpandFrom(_, _, _, _, _, _)
ExpandFrom(nb, ms, num, l, st, c) ==
    LET st1 == st \o Ascending(PushSet(nb, ms, l, c, num))
        l1 == VisitLabels(l, c, num)
    IN IF Len(st1) = 0 THEN l1
       ELSE ExpandFrom(nb, ms, num, l1, StackPop(st1), StackTop(st1))

\* the outer loop of dbscan_inner from index k on
RECURSIVE ScanFrom(_, _, _, _, _)
ScanFrom(nb, ms, k, num, l) ==
    IF k > Len(l) THEN l
    ELSE IF StartsCluster(nb, ms, l, k)
           THEN ScanFrom(nb, ms, k + 1, NextLabelNum(num), ExpandFrom(nb, ms, num, l, <<>>, k))
           ELSE ScanFrom(nb, ms, k + 1, num, l)

\* DBSCAN(eps, min_samples).fit(X).labels_ for valid parameters
FitLabels(X, den, e, ms) ==
    ScanFrom(RadiusNeighbors(X, den, e), ms, 1, 0, [k \in DOMAIN X |-> Noise])

\* labels of run_dbscan(d, e, ms) for a non-empty d and valid parameters
RunLabels(d, e, ms) == FitLabels(ScaleNum(d), ScaleDen(d), e, ms)

\* ---- get_clustering_metrics ---------------------------------------------
\* a percentage is the exact rational <<numerator, denominator>>; the
\* divisions by total_points raise ZeroDivisionError when it is 0
\* (get_clustering_metrics_of_all: clustered_points taken as total_points)
get_clustering_metrics_of_all(l, total_points) ==
    IF total_points = 0
      THEN [kind |-> "ZeroDivisionError"]
      ELSE [kind |-> "ok",
            n_clusters |-> NClusters(l),
            n_noise |-> NNoise(l),
            clustered_points |-> total_points,
            noise_percentage |-> <<NNoise(l) * 100, total_points>>,
            clustered_percentage |-> <<total_points * 100, total_points>>]
get_clustering_metrics(l, total_points) ==
    IF total_points = 0
      THEN [kind |-> "ZeroDivisionError"]
      ELSE [kind |-> "ok",
            n_clusters |-> NClusters(l),
            n_noise |-> NNoise(l),
            clustered_points |-> total_points - NNoise(l),
            noise_percentage |-> <<NNoise(l) * 100, total_points>>,
            clustered_percentage |-> <<(total_points - NNoise(l)) * 100, total_points>>]

\* ---- calculate_cluster_stats, get_cluster_centers ----------------------------
\* the rows kept by df_sample[labels != -1]
\* (FilteredAll: the noise rows kept)
FilteredAll(l) == DOMAIN l
Filtered(l) == {k \in DOMAIN l : l[k] # Noise}
\* sorted(df_filtered['Cluster'].unique())
UniqueSorted(l) == Ascending({l[k] : k \in Filtered(l)})
\* df_filtered[df_filtered['Cluster'] == cluster_id]
ClusterData(l, cluster_id) == {k \in Filtered(l) : l[k] = cluster_id}

RECURSIVE ColumnSum(_, _, _)
ColumnSum(d, S, c) ==
    IF S = {} THEN 0 ELSE d[SetMin(S)][c] + ColumnSum(d, S \ {SetMin(S)}, c)
\* cluster_data[column].mean() as the exact rational <<sum, count>>
Mean(d, S, c) == <<ColumnSum(d, S, c), Cardinality(S)>>

\* one row per cluster id, in the order of the loop
calculate_cluster_stats(df_sample, l) ==
    [n \in 1..Len(UniqueSorted(l)) |->
        LET cluster_data == ClusterData(l, UniqueSorted(l)[n])
        IN [cluster_id |-> UniqueSorted(l)[n],
            number_of_points |-> Cardinality(cluster_data),
            center_latitude |-> Mean(df_sample, cluster_data, 2),
            center_longitude |-> Mean(df_sample, cluster_data, 1)]]

\* one [X mean, Y mean] per cluster id, in the order of the loop
get_cluster_centers(df_sample, l) ==
    [n \in 1..Len(UniqueSorted(l)) |->
        LET cluster_data == ClusterData(l, UniqueSorted(l)[n])
        IN <<Mean(df_sample, cluster_data, 1), Mean(df_sample, cluster_data, 2)>>]

\* ---- create_cluster_center_map, create_combined_map ----------------------------
\* one marker per entry of mean_location_clusters: `index` counts the entries
\* from 0, cluster_size is the number of rows of df_filtered whose Cluster is
\* index, and the marker stands at [location[1], location[0]]
\* (create_cluster_center_map_from_one: the entries counted from 1)
create_cluster_center_map_from_one(locations, l) ==
    [n \in 1..Len(locations) |->
        [index |-> n,
         cluster_size |-> Cardinality(ClusterData(l, n)),
         location |-> <<locations[n][2], locations[n][1]>>]]
create_cluster_center_map(locations, l) ==
    [n \in 1..Len(locations) |->
        [index |-> n - 1,
         cluster_size |-> Cardinality(ClusterData(l, n - 1)),
         location |-> <<locations[n][2], locations[n][1]>>]]

Init ==
    /\ \/ /\ df \in SeqsUpTo(Point2D, MaxN)
          /\ eps \in EpsValues
          /\ min_samples \in MinSamplesValues
       \/ /\ df \in Arrangements(BridgePoints) \cup Arrangements(ChainPoints)
          /\ eps \in BridgeEps
          /\ min_samples \in BridgeMinSamples
    /\ pc = "scale"
    /\ df_scaled = <<>>
    /\ data_range = <<1, 1>>
    /\ neighborhoods = <<>>
    /\ labels = <<>>
    /\ i = 1
    /\ cur = 0
    /\ stack = <<>>
    /\ label_num = 0
    /\ result = [kind |-> "none"]
    /\ cache = <<>>
    /\ calls = 1
    /\ eps_den = EpsDen
    /\ metrics = [kind |-> "none"]
    /\ mean_location_clusters = [kind |-> "none"]
    /\ cluster_df = [kind |-> "none"]
    /\ sf_map = [kind |-> "none"]
    /\ page = "none"
    /\ len_df = Len(df)
    /\ sample_size = Len(df)
    /\ n_sample = Len(df)

\* scaler.fit_transform(df_SF): check_array refuses an array with no rows and
\* an array that holds inf
Scale ==
    /\ pc = "scale"
    /\ IF Len(df) = 0 \/ ContainsInf(df)
         THEN /\ pc' = "raised"
              /\ result' = [kind |-> "ValueError"]
              /\ UNCHANGED <<df_scaled, data_range>>
         ELSE /\ pc' = "fit"
              /\ df_scaled' = ScaleNum(df)
              /\ data_range' = ScaleDen(df)
              /\ UNCHANGED result
    /\ UNCHANGED <<df, eps, min_samples, neighborhoods, labels, i, cur, stack, label_num>>
    /\ UNCHANGED <<eps_den, cache, calls, pagevars, uivars>>

\* DBSCAN(eps, min_samples).fit up to the call of dbscan_inner: the parameters
\* are validated first, then the array
Fit ==
    /\ pc = "fit"
    /\ IF ~ValidParams(eps, min_samples)
         THEN /\ pc' = "raised"
              /\ result' = [kind |-> "InvalidParameter"]
              /\ UNCHANGED <<neighborhoods, labels>>
         ELSE IF ContainsNaN(df_scaled)
         THEN /\ pc' = "raised"
              /\ result' = [kind |-> "ValueError"]
              /\ UNCHANGED <<neighborhoods, labels>>
         ELSE /\ pc' = "scan"
              /\ neighborhoods' = RadiusNeighborsOver(df_scaled, data_range, eps, eps_den)
              /\ labels' = [k \in DOMAIN df_scaled |-> Noise]
              /\ UNCHANGED result
    /\ UNCHANGED <<df, eps, min_samples, df_scaled, data_range, i, cur, stack, label_num>>
    /\ UNCHANGED <<eps_den, cache, calls, pagevars, uivars>>

\* outer loop of dbscan_inner: labelled or non-core points are passed over
ScanSkip ==
    /\ pc = "scan"
    /\ i <= Len(labels)
    /\ ~StartsCluster(neighborhoods, min_samples, labels, i)
    /\ i' = i + 1
    /\ UNCHANGED <<df, eps, min_samples, pc, df_scaled, data_range, neighborhoods,
                   labels, cur, stack, label_num, result>>
    /\ UNCHANGED <<eps_den, cache, calls, pagevars, uivars>>

\* outer loop of dbscan_inner: an unlabelled core point starts a cluster
ScanStart ==
    /\ pc = "scan"
    /\ i <= Len(labels)
    /\ StartsCluster(neighborhoods, min_samples, labels, i)
    /\ cur' = i
    /\ pc' = "expand"
    /\ UNCHANGED <<df, eps, min_samples, df_scaled, data_range, neighborhoods,
                   labels, i, stack, label_num, result>>
    /\ UNCHANGED <<eps_den, cache, calls, pagevars, uivars>>

\* one iteration of `while True` in dbscan_inner
Expand ==
    /\ pc = "expand"
    /\ \E order \in Orders(PushSet(neighborhoods, min_samples, labels, cur, label_num)) :
         LET st1 == stack \o order IN
           /\ labels' = VisitLabels(labels, cur, label_num)
           /\ IF Len(st1) = 0
                THEN /\ stack' = st1
                     /\ label_num' = NextLabelNum(label_num)
                     /\ i' = i + 1
                     /\ pc' = "scan"
                     /\ UNCHANGED cur
                ELSE /\ cur' = StackTop(st1)
                     /\ stack' = StackPop(st1)
                     /\ UNCHANGED <<label_num, i, pc>>
    /\ UNCHANGED <<df, eps, min_samples, df_scaled, data_range, neighborhoods, result>>
    /\ UNCHANGED <<eps_den, cache, calls, pagevars, uivars>>

\* labels = crime_points.labels_ and the statistics; the return, which
\* st.cache_data stores under the key of the arguments
Stats ==
    /\ pc = "scan"
    /\ i > Len(labels)
    /\ pc' = "done"
    /\ result' = [kind |-> "ok", labels |-> labels,
                  n_clusters |-> NClusters(labels), n_noise |-> NNoise(labels)]
    /\ cache' = CacheWrite(cache, CacheKey(df, eps, min_samples), result')
    /\ UNCHANGED <<df, eps, min_samples, df_scaled, data_range, neighborhoods,
                   labels, i, cur, stack, label_num, calls, pagevars, eps_den, uivars>>

Next == Scale \/ Fit \/ ScanSkip \/ ScanStart \/ Expand \/ Stats

Spec == Init /\ [][Next]_vars

\* ---- calls on frames that hold non-finite coordinates ----------------------
MaxRawN == 2       \* longest point sequence drawn with non-finite coordinates
RawCoords == Coords \cup {NaN, Inf}
RawPoint2D == RawCoords \X RawCoords

InitRaw ==
    /\ df \in SeqsUpTo(RawPoint2D, MaxRawN)
    /\ eps \in EpsValues
    /\ min_samples \in MinSamplesValues
    /\ pc = "scale"
    /\ df_scaled = <<>>
    /\ data_range = <<1, 1>>
    /\ neighborhoods = <<>>
    /\ labels = <<>>
    /\ i = 1
    /\ cur = 0
    /\ stack = <<>>
    /\ label_num = 0
    /\ result = [kind |-> "none"]
    /\ cache = <<>>
    /\ calls = 1
    /\ eps_den = EpsDen
    /\ metrics = [kind |-> "none"]
    /\ mean_location_clusters = [kind |-> "none"]
    /\ cluster_df = [kind |-> "none"]
    /\ sf_map = [kind |-> "none"]
    /\ page = "none"
    /\ len_df = Len(df)
    /\ sample_size = Len(df)
    /\ n_sample = Len(df)

SpecRaw == InitRaw /\ [][Next]_vars

\* ---- the page: the summaries of the labels run_dbscan returned --------------
\* metrics = get_clustering_metrics(labels, len(df_sample))
GetClusteringMetrics ==
    /\ pc = "done"
    /\ metrics' = get_clustering_metrics(result.labels, Len(df))
    /\ pc' = IF metrics'.kind = "ok" THEN "metrics" ELSE "raised"
    /\ UNCHANGED <<df, eps, min_samples, df_scaled, data_range, neighborhoods,
                   labels, i, cur, stack, label_num, result, cache, calls,
                   mean_location_clusters, cluster_df, sf_map, eps_den, uivars>>

\* mean_location_clusters, df_filtered = get_cluster_centers(df_sample, labels)
GetClusterCenters ==
    /\ pc = "metrics"
    /\ mean_location_clusters' = [kind |-> "ok", rows |-> get_cluster_centers(df, result.labels)]
    /\ pc' = "centers"
    /\ UNCHANGED <<df, eps, min_samples, df_scaled, data_range, neighborhoods,
                   labels, i, cur, stack, label_num, result, cache, calls,
                   metrics, cluster_df, sf_map, eps_den, uivars>>

\* cluster_df = calculate_cluster_stats(df_sample, labels)
CalculateClusterStats ==
    /\ pc = "centers"
    /\ cluster_df' = [kind |-> "ok", rows |-> calculate_cluster_stats(df, result.labels)]
    /\ pc' = "stats"
    /\ UNCHANGED <<df, eps, min_samples, df_scaled, data_range, neighborhoods,
                   labels, i, cur, stack, label_num, result, cache, calls,
                   metrics, mean_location_clusters, sf_map, eps_den, uivars>>

\* sf_map = create_cluster_center_map(mean_location_clusters, df_filtered)
CreateClusterCenterMap ==
    /\ pc = "centers"
    /\ sf_map' = [kind |-> "ok",
                  markers |-> create_cluster_center_map(mean_location_clusters.rows,
                                                        result.labels)]
    /\ pc' = "map"
    /\ UNCHANGED <<df, eps, min_samples, df_scaled, data_range, neighborhoods,
                   labels, i, cur, stack, label_num, result, cache, calls,
                   metrics, mean_location_clusters, cluster_df, eps_den, uivars>>

InitPage ==
    /\ df \in SeqsUpTo(Point2D, MaxN)
    /\ eps \in EpsValues
    /\ min_samples \in MinSamplesValues
    /\ pc = "scale"
    /\ df_scaled = <<>>
    /\ data_range = <<1, 1>>
    /\ neighborhoods = <<>>
    /\ labels = <<>>
    /\ i = 1
    /\ cur = 0
    /\ stack = <<>>
    /\ label_num = 0
    /\ result = [kind |-> "none"]
    /\ cache = <<>>
    /\ calls = 1
    /\ eps_den = EpsDen
    /\ metrics = [kind |-> "none"]
    /\ mean_location_clusters = [kind |-> "none"]
    /\ cluster_df = [kind |-> "none"]
    /\ sf_map = [kind |-> "none"]
    /\ page = "none"
    /\ len_df = Len(df)
    /\ sample_size = Len(df)
    /\ n_sample = Len(df)

NextPage ==
    \/ Next
    \/ GetClusteringMetrics
    \/ GetClusterCenters
    \/ CalculateClusterStats
    \/ CreateClusterCenterMap

SpecPage == InitPage /\ [][NextPage]_vars

\* ---- the summaries called on label sequences of any kind --------------------
MaxSumN == 3       \* longest frame and label sequence handed to the summaries
MaxLabel == 2      \* labels are drawn from -1..MaxLabel
SummaryPoints == {<<0, 1>>, <<1, 0>>, <<2, 2>>}
SummaryLabels == Noise..MaxLabel

\* each of the three functions is entered directly
InitSummary ==
    /\ df \in SeqsUpTo(SummaryPoints, MaxSumN)
    /\ \E l \in [DOMAIN df -> SummaryLabels] : result = [kind |-> "given", labels |-> l]
    /\ pc \in {"done", "metrics", "centers"}
    /\ eps = 1
    /\ min_samples = 1
    /\ df_scaled = <<>>
    /\ data_range = <<1, 1>>
    /\ neighborhoods = <<>>
    /\ labels = <<>>
    /\ i = 1
    /\ cur = 0
    /\ stack = <<>>
    /\ label_num = 0
    /\ cache = <<>>
    /\ calls = 1
    /\ eps_den = EpsDen
    /\ metrics = [kind |-> "none"]
    /\ mean_location_clusters = [kind |-> "none"]
    /\ cluster_df = [kind |-> "none"]
    /\ sf_map = [kind |-> "none"]
    /\ page = "none"
    /\ len_df = Len(df)
    /\ sample_size = Len(df)
    /\ n_sample = Len(df)

NextSummary == GetClusteringMetrics \/ GetClusterCenters \/ CalculateClusterStats

SpecSummary == InitSummary /\ [][NextSummary]_vars

\* ---- Scenario A ---------------------------------------------------------------
\* the points (0, 0), (0, 0.01), (0.01, 0), (0.01, 0.01), (10, 10) with the
\* coordinates counted in hundredths (the scaler's output does not depend on
\* the unit), eps = 0.1 as 1 over 10
ScenarioA == <<<<0, 0>>, <<0, 1>>, <<1, 0>>, <<1, 1>>, <<1000, 1000>>>>

\* the five points in any order, min_samples from 1 to one more than their number
InitScenario ==
    /\ df \in Arrangements(ScenarioA)
    /\ eps = 1
    /\ eps_den = 10
    /\ min_samples \in 1..(Len(ScenarioA) + 1)
    /\ pc = "scale"
    /\ df_scaled = <<>>
    /\ data_range = <<1, 1>>
    /\ neighborhoods = <<>>
    /\ labels = <<>>
    /\ i = 1
    /\ cur = 0
    /\ stack = <<>>
    /\ label_num = 0
    /\ result = [kind |-> "none"]
    /\ cache = <<>>
    /\ calls = 1
    /\ metrics = [kind |-> "none"]
    /\ mean_location_clusters = [kind |-> "none"]
    /\ cluster_df = [kind |-> "none"]
    /\ sf_map = [kind |-> "none"]
    /\ page = "none"
    /\ len_df = Len(df)
    /\ sample_size = Len(df)
    /\ n_sample = Len(df)

SpecScenario == InitScenario /\ [][Next]_vars

\* ---- several calls of run_dbscan, one after the other ----------------------
MaxCalls == 3      \* calls in one behaviour
CallPoints == {<<0, 0>>, <<MaxCoord, MaxCoord>>}
CallFrames == SeqsUpTo(CallPoints, PandasRowsLarge)
CallMinSamples == 0..2

InitCalls ==
    /\ df \in CallFrames
    /\ eps \in BridgeEps
    /\ min_samples \in CallMinSamples
    /\ pc = "scale"
    /\ df_scaled = <<>>
    /\ data_range = <<1, 1>>
    /\ neighborhoods = <<>>
    /\ labels = <<>>
    /\ i = 1
    /\ cur = 0
    /\ stack = <<>>
    /\ label_num = 0
    /\ result = [kind |-> "none"]
    /\ cache = <<>>
    /\ calls = 1
    /\ eps_den = EpsDen
    /\ metrics = [kind |-> "none"]
    /\ mean_location_clusters = [kind |-> "none"]
    /\ cluster_df = [kind |-> "none"]
    /\ sf_map = [kind |-> "none"]
    /\ page = "none"
    /\ len_df = Len(df)
    /\ sample_size = Len(df)
    /\ n_sample = Len(df)

\* the next call finds an entry under the key of its arguments: the body of
\* run_dbscan does not run and a copy of the entry is returned
CallHit ==
    /\ pc \in {"done", "held", "raised"}
    /\ calls < MaxCalls
    /\ \E d \in CallFrames, e \in BridgeEps, ms \in CallMinSamples :
         /\ CacheKey(d, e, ms) \in DOMAIN cache
         /\ df' = d
         /\ eps' = e
         /\ min_samples' = ms
         /\ result' = cache[CacheKey(d, e, ms)]
    /\ pc' = "done"
    /\ calls' = calls + 1
    /\ df_scaled' = <<>>
    /\ data_range' = <<1, 1>>
    /\ neighborhoods' = <<>>
    /\ labels' = <<>>
    /\ i' = 1
    /\ cur' = 0
    /\ stack' = <<>>
    /\ label_num' = 0
    /\ UNCHANGED <<eps_den, cache, pagevars, uivars>>

\* the next call finds no entry: the body of run_dbscan runs
CallMiss ==
    /\ pc \in {"done", "held", "raised"}
    /\ calls < MaxCalls
    /\ \E d \in CallFrames, e \in BridgeEps, ms \in CallMinSamples :
         /\ CacheKey(d, e, ms) \notin DOMAIN cache
         /\ df' = d
         /\ eps' = e
         /\ min_samples' = ms
    /\ pc' = "scale"
    /\ calls' = calls + 1
    /\ df_scaled' = <<>>
    /\ data_range' = <<1, 1>>
    /\ neighborhoods' = <<>>
    /\ labels' = <<>>
    /\ i' = 1
    /\ cur' = 0
    /\ stack' = <<>>
    /\ label_num' = 0
    /\ result' = [kind |-> "none"]
    /\ UNCHANGED <<eps_den, cache, pagevars, uivars>>

\* the caller writes into the labels it was handed; the entry of the cache is
\* a copy and stays as it is
CallerMutates ==
    /\ pc = "done"
    /\ \E k \in DOMAIN result.labels : \E v \in {Noise, 0} :
         /\ v # result.labels[k]
         /\ result' = [result EXCEPT !.labels[k] = v]
    /\ pc' = "held"
    /\ UNCHANGED <<df, eps, min_samples, df_scaled, data_range, neighborhoods,
                   labels, i, cur, stack, label_num, cache, calls, pagevars, eps_den, uivars>>

NextCalls == Next \/ CallHit \/ CallMiss \/ CallerMutates

SpecCalls == InitCalls /\ [][NextCalls]_vars

\* ---- calls on frames with a wider range of coordinates ----------------------
MaxNormN == 3      \* longest point sequence drawn with the wider coordinates
MaxNormCoord == 2  \* these coordinates are drawn from 0..MaxNormCoord
NormCoords == 0..MaxNormCoord
NormPoint2D == NormCoords \X NormCoords

InitNorm ==
    /\ df \in SeqsUpTo(NormPoint2D, MaxNormN)
    /\ eps \in BridgeEps
    /\ min_samples = 1
    /\ pc = "scale"
    /\ df_scaled = <<>>
    /\ data_range = <<1, 1>>
    /\ neighborhoods = <<>>
    /\ labels = <<>>
    /\ i = 1
    /\ cur = 0
    /\ stack = <<>>
    /\ label_num = 0
    /\ result = [kind |-> "none"]
    /\ cache = <<>>
    /\ calls = 1
    /\ eps_den = EpsDen
    /\ metrics = [kind |-> "none"]
    /\ mean_location_clusters = [kind |-> "none"]
    /\ cluster_df = [kind |-> "none"]
    /\ sf_map = [kind |-> "none"]
    /\ page = "none"
    /\ len_df = Len(df)
    /\ sample_size = Len(df)
    /\ n_sample = Len(df)

SpecNorm == InitNorm /\ [][Next]_vars


\* ---- derived point classes of a finished run ------------------------------
Indices == DOMAIN labels
Cores == {k \in Indices : IsCore(neighborhoods, min_samples, k)}
CoreNeighbours(k) == neighborhoods[k] \cap Cores
Borders == {k \in Indices \ Cores : CoreNeighbours(k) # {}}
Returned == pc = "done" /\ result.kind = "ok"

\* the core points joined to those of S by a chain of core points, each
\* within eps of the next
RECURSIVE CoreChain(_)
CoreChain(S) ==
    LET T == S \cup {v \in Cores : \E u \in S : v \in neighborhoods[u]}
    IN IF T = S THEN S ELSE CoreChain(T)

\* C1: once run_dbscan has ended on a non-empty point sequence with eps > 0
\* and min_samples >= 1, it has returned (not raised) a label sequence over
\* exactly the indices of the input, each label being -1 or a cluster id >= 0.
C1_Totality ==
    (pc \in {"done", "raised"} /\ Len(df) > 0 /\ eps > 0 /\ min_samples >= 1)
        => /\ Returned
           /\ DOMAIN result.labels = DOMAIN df
           /\ \A k \in DOMAIN df : result.labels[k] \in Int /\ result.labels[k] >= Noise

C1_Witness ==
    /\ Returned
    /\ Len(df) >= 2
    /\ \E k \in DOMAIN df : result.labels[k] = Noise
    /\ \E k \in DOMAIN df : result.labels[k] >= 0

\* C2: the outcome of a run is a function of (points, eps, min_samples) alone:
\* whatever order the neighbours of each point come back in, a run that returns
\* returns the labels of the run that takes them in index order, and whether
\* and what a run raises is fixed by its arguments.
C2_Determinism ==
    /\ Returned => result.labels = RunLabels(df, eps, min_samples)
    /\ pc = "done" => (Len(df) > 0 /\ eps > 0 /\ min_samples >= 1)
    /\ pc = "raised" =>
         result.kind = (IF Len(df) = 0 THEN "ValueError" ELSE "InvalidParameter")

C2_Witness ==
    /\ Returned
    /\ \E k \in Cores : Cardinality(neighborhoods[k]) >= 3
    /\ result.n_clusters >= 1
    /\ result.labels = RunLabels(df, eps, min_samples)

\* C3: the cluster ids of a result are exactly 0 .. n_clusters - 1, and for
\* ids a < b the first core point (in input order) of cluster a comes before
\* the first core point of cluster b.
FirstCore(c) == SetMin({k \in Cores : result.labels[k] = c})
C3_Contiguity ==
    Returned =>
        /\ LabelSet(result.labels) \ {Noise} = 0..(result.n_clusters - 1)
        /\ \A a, b \in LabelSet(result.labels) \ {Noise} :
             /\ \E k \in Cores : result.labels[k] = a
             /\ a < b => FirstCore(a) < FirstCore(b)

C3_Witness == Returned /\ result.n_clusters >= 2

\* C4: two core points carry the same cluster id exactly when a chain of core
\* points, consecutive ones within eps of each other, joins them.
C4_CoreComponents ==
    Returned =>
        \A p, q \in Cores :
            /\ result.labels[p] >= 0
            /\ (result.labels[p] = result.labels[q]) <=> (q \in CoreChain({p}))

C4_Witness ==
    /\ Returned
    /\ \E p, q \in Cores :
         /\ q \notin neighborhoods[p]
         /\ result.labels[p] = result.labels[q]

\* C5: a point is labelled noise exactly when it is not a core point and no
\* core point lies within eps of it.
C5_NoiseCharacterisation ==
    Returned =>
        \A k \in Indices :
            (result.labels[k] = Noise) <=> (k \notin Cores /\ CoreNeighbours(k) = {})

\* a border point that the scan passed over, still labelled -1, before the
\* core point that later gave it its cluster id
C5_Witness ==
    /\ Returned
    /\ \E k \in Borders : result.labels[k] >= 0 /\ \A c \in Cores : k < c
    /\ \E k \in Indices : result.labels[k] = Noise

\* C6: a border point carries the cluster id of a core point within eps of it,
\* and the smallest such id when core points of several clusters are.
CoreLabels(k) == {result.labels[j] : j \in CoreNeighbours(k)}
C6_BorderTieBreak ==
    Returned =>
        \A k \in Borders :
            /\ result.labels[k] \in CoreLabels(k)
            /\ \A c \in CoreLabels(k) : result.labels[k] <= c

C6_Witness ==
    /\ Returned
    /\ \E k \in Borders : Cardinality(CoreLabels(k)) >= 2


\* ---- the reference algorithm, steps 1 to 8 of the clustering engine's contract
\* A label is Unassigned, Noise or a cluster id.  The frontier is a queue taken
\* from the front; indices found together join it in increasing order.  In step
\* 6 a neighbour "not yet assigned" is one not yet assigned to a cluster: a
\* neighbour tentatively marked Noise joins the frontier, as step 4 promises
\* ("may be overwritten later if reachable as a border point from some other
\* core point").
Unassigned == 0 - 2
RefCore(nb, ms, k) == Cardinality(nb[k]) >= ms
InQueue(q, v) == \E n \in DOMAIN q : q[n] = v

\* step 6 and 7: the frontier q of cluster c is worked off
RECURSIVE RefFrontier(_, _, _, _, _)
RefFrontier(nb, ms, c, l, q) ==
    IF q = <<>> THEN l
    ELSE LET k == Head(q)
             l1 == IF l[k] \in {Unassigned, Noise} THEN [l EXCEPT ![k] = c] ELSE l
             found == IF l[k] = Unassigned /\ RefCore(nb, ms, k)
                        THEN {v \in nb[k] : l1[v] \in {Unassigned, Noise}
                                            /\ ~InQueue(Tail(q), v)}
                        ELSE {}
         IN RefFrontier(nb, ms, c, l1, Tail(q) \o Ascending(found))

\* steps 2 to 5 and 8: the outer scan from index k on, c the next cluster id
RECURSIVE RefScan(_, _, _, _, _)
RefScan(nb, ms, k, c, l) ==
    IF k > Len(l) THEN l
    ELSE IF l[k] # Unassigned THEN RefScan(nb, ms, k + 1, c, l)
    ELSE IF ~RefCore(nb, ms, k) THEN RefScan(nb, ms, k + 1, c, [l EXCEPT ![k] = Noise])
    ELSE RefScan(nb, ms, k + 1, c + 1,
                 RefFrontier(nb, ms, c, [l EXCEPT ![k] = c], Ascending(nb[k] \ {k})))

RefCluster(nb, ms) == RefScan(nb, ms, 1, 0, [k \in DOMAIN nb |-> Unassigned])

\* C7: the labels the called engine returns are, position by position, the
\* labels steps 1 to 8 produce on the same scaled points; and its scan and
\* expansion label every point sequence as steps 1 to 8 do for every eps and
\* min_samples, those that fit refuses included.
C7_EngineMatchesReference ==
    /\ Returned => result.labels = RefCluster(neighborhoods, min_samples)
    /\ pc = "raised" =>
         RunLabels(df, eps, min_samples)
            = RefCluster(RadiusNeighbors(ScaleNum(df), ScaleDen(df), eps), min_samples)

C7_Witness ==
    /\ Returned
    /\ result.n_clusters >= 2
    /\ \E k \in Borders : \E a, b \in CoreNeighbours(k) :
         a < k /\ k < b /\ result.labels[a] # result.labels[b]
    /\ result.labels = RefCluster(neighborhoods, min_samples)

\* C8: with the points and eps fixed, a larger min_samples never gives fewer
\* noise points.
C8_NoiseMonotoneInMinPts ==
    Returned =>
        \A m2 \in min_samples..(Len(df) + 1) :
            result.n_noise <= NNoise(FitLabels(df_scaled, data_range, eps, m2))

C8_Witness ==
    /\ Returned
    /\ Len(df) >= 3
    /\ result.n_noise > 0
    /\ \E m2 \in min_samples..(Len(df) + 1) :
         result.n_noise < NNoise(FitLabels(df_scaled, data_range, eps, m2))

\* C9: with the points and min_samples fixed, a larger eps never gives more
\* noise points.
C9_NoiseAntitoneInEps ==
    Returned =>
        \A e2 \in eps..MaxEpsNum :
            NNoise(FitLabels(df_scaled, data_range, e2, min_samples)) <= result.n_noise

C9_Witness ==
    /\ Returned
    /\ Len(df) >= 3
    /\ result.n_clusters >= 1
    /\ \E e2 \in eps..MaxEpsNum :
         NNoise(FitLabels(df_scaled, data_range, e2, min_samples)) < result.n_noise

\* C10: a call with eps <= 0 or min_samples < 1 never gets as far as labels,
\* and once it has ended it has raised InvalidParameter.
C10_InvalidRejected ==
    (eps <= 0 \/ min_samples < 1) =>
        /\ labels = <<>>
        /\ pc \in {"scale", "fit", "raised"}
        /\ pc = "raised" => result.kind = "InvalidParameter"

\* the same for the calls whose point sequence is not empty
C10_InvalidRejectedNonEmpty ==
    ((eps <= 0 \/ min_samples < 1) /\ Len(df) > 0) =>
        /\ labels = <<>>
        /\ pc \in {"scale", "fit", "raised"}
        /\ pc = "raised" => result.kind = "InvalidParameter"

\* C11: a call on the empty point sequence with eps > 0 and min_samples >= 1
\* returns (does not raise) the empty label sequence, with zero clusters and
\* zero noise points.
C11_EmptyReturnsEmpty ==
    (pc \in {"done", "raised"} /\ Len(df) = 0 /\ eps > 0 /\ min_samples >= 1)
        => /\ Returned
           /\ result.labels = <<>>
           /\ result.n_clusters = 0
           /\ result.n_noise = 0

\* C12: under SpecRaw, a call whose frame holds a nan or an infinite
\* coordinate never computes neighbourhoods or labels and never returns; once
\* it has ended it has raised, and until then no row has been dropped.
MalformedPoints == {k \in DOMAIN df : \E c \in 1..2 : df[k][c] \in {NaN, Inf}}
C12_MalformedRejected ==
    MalformedPoints # {} =>
        /\ pc \in {"scale", "fit", "raised"}
        /\ labels = <<>>
        /\ neighborhoods = <<>>
        /\ df_scaled # <<>> => Len(df_scaled) = Len(df)
        /\ pc # "raised" => result.kind = "none"
        /\ pc = "raised" => result.kind \in {"ValueError", "InvalidParameter"}

\* a nan point next to a finite one, with valid parameters, got through the
\* scaler and was refused by fit
C12_Witness ==
    /\ pc = "raised"
    /\ result.kind = "ValueError"
    /\ eps > 0
    /\ min_samples >= 1
    /\ df_scaled # <<>>
    /\ MalformedPoints # {}
    /\ DOMAIN df \ MalformedPoints # {}

\* ---- the scaled frame against the raw one ------------------------------
\* the scaler has just run on a non-empty frame (df, df_scaled and data_range
\* are not written again after this position)
Normalized == pc = "fit" /\ Len(df) > 0
RawValues(c) == {df[k][c] : k \in DOMAIN df}
IsLowest(lo, c) == lo \in RawValues(c) /\ \A v \in RawValues(c) : lo <= v
IsHighest(hi, c) == hi \in RawValues(c) /\ \A v \in RawValues(c) : hi >= v
\* row k of column c holds the rational num/den
ScaledIs(k, c, num, den) ==
    data_range[c] > 0 /\ den > 0 /\ df_scaled[k][c] * den = num * data_range[c]

\* C13: under SpecNorm, once the scaler has run on a non-empty frame, the
\* scaled frame has the rows of the input in their order; every scaled
\* coordinate lies in [0, 1]; and in a dimension with max > min row k holds
\* (v - min) / (max - min), some row holds 0 and some row holds 1.
C13_NormalizerOutput ==
    Normalized =>
        /\ DOMAIN df_scaled = DOMAIN df
        /\ \A c \in 1..2 : \A k \in DOMAIN df :
             /\ data_range[c] > 0
             /\ 0 <= df_scaled[k][c]
             /\ df_scaled[k][c] <= data_range[c]
        /\ \A c \in 1..2 : \A lo, hi \in RawValues(c) :
             (IsLowest(lo, c) /\ IsHighest(hi, c) /\ hi > lo) =>
                 /\ \A k \in DOMAIN df : ScaledIs(k, c, df[k][c] - lo, hi - lo)
                 /\ \E k \in DOMAIN df : ScaledIs(k, c, 0, 1)
                 /\ \E k \in DOMAIN df : ScaledIs(k, c, 1, 1)

\* a frame whose X column has a row strictly between its ends and whose Y
\* column does not start at 0
C13_Witness ==
    /\ Normalized
    /\ \E k \in DOMAIN df : 0 < df_scaled[k][1] /\ df_scaled[k][1] < data_range[1]
    /\ \E lo, hi \in RawValues(2) : IsLowest(lo, 2) /\ IsHighest(hi, 2) /\ 0 < lo /\ lo < hi

\* C14: under SpecNorm, a dimension in which all rows of a non-empty frame
\* hold the same value does not make the scaler raise and is scaled to
\* exactly 0 in every row, while the other dimension, if its max > min, is
\* scaled by its own min and max.
Degenerate(c) == \A v, w \in RawValues(c) : v = w
C14_DegenerateDimension ==
    /\ (pc = "raised" /\ Len(df) > 0) => result.kind # "ValueError"
    /\ Normalized =>
        \A c \in 1..2 : Degenerate(c) =>
            /\ DOMAIN df_scaled = DOMAIN df
            /\ \A k \in DOMAIN df : ScaledIs(k, c, 0, 1)
            /\ \A lo, hi \in RawValues(3 - c) :
                 (IsLowest(lo, 3 - c) /\ IsHighest(hi, 3 - c) /\ hi > lo) =>
                     \A k \in DOMAIN df : ScaledIs(k, 3 - c, df[k][3 - c] - lo, hi - lo)

\* several rows share a non-zero X while their Y values differ and do not
\* start at 0
C14_Witness ==
    /\ Normalized
    /\ Len(df) >= 2
    /\ Degenerate(1)
    /\ 0 \notin RawValues(1)
    /\ ~Degenerate(2)
    /\ 0 \notin RawValues(2)

\* C15: under SpecNorm, a frame whose two columns both have min 0 and max 1 is
\* scaled to itself, and scaling the scaled frame of any frame without a
\* constant column once more gives the same scaled frame.
C15_Idempotence ==
    Normalized =>
        /\ (\A c \in 1..2 : IsLowest(0, c) /\ IsHighest(1, c)) =>
               \A c \in 1..2 : \A k \in DOMAIN df : ScaledIs(k, c, df[k][c], 1)
        /\ (\A c \in 1..2 : ~Degenerate(c)) =>
               LET again == ScaleNum(df_scaled)
                   den == RescaleDen(df_scaled, data_range)
               IN \A c \in 1..2 : \A k \in DOMAIN df :
                      ScaledIs(k, c, again[k][c], den[c])

\* a frame without a constant column that is not scaled yet: a column not
\* starting at 0 and a row strictly inside the range of a column
C15_Witness ==
    /\ Normalized
    /\ \A c \in 1..2 : ~Degenerate(c)
    /\ \E c \in 1..2 : 0 \notin RawValues(c)
    /\ \E c \in 1..2 : \E k \in DOMAIN df :
         0 < df_scaled[k][c] /\ df_scaled[k][c] < data_range[c]

\* C16: under SpecCalls, whatever calls came before and whatever the caller
\* did to what they returned, a call that has returned has returned the
\* labels and counts of run_dbscan computed afresh on its own df, eps and
\* min_samples.
C16_Stateless ==
    (pc = "done" /\ Len(df) > 0 /\ eps > 0 /\ min_samples >= 1) =>
        /\ result.kind = "ok"
        /\ result.labels = RunLabels(df, eps, min_samples)
        /\ result.n_clusters = NClusters(RunLabels(df, eps, min_samples))
        /\ result.n_noise = NNoise(RunLabels(df, eps, min_samples))

\* the same for the calls whose frame has fewer than PandasRowsLarge rows
C16_StatelessSmallFrames ==
    (pc = "done" /\ Len(df) > 0 /\ Len(df) < PandasRowsLarge /\ eps > 0 /\ min_samples >= 1) =>
        /\ result.kind = "ok"
        /\ result.labels = RunLabels(df, eps, min_samples)
        /\ result.n_clusters = NClusters(RunLabels(df, eps, min_samples))
        /\ result.n_noise = NNoise(RunLabels(df, eps, min_samples))

\* C17: under SpecPage, once get_clustering_metrics has returned for the
\* labels of run_dbscan: n_clusters of run_dbscan is the number of distinct
\* labels other than -1 and n_noise the number of positions labelled -1;
\* get_clustering_metrics reports the same two numbers; and its
\* clustered_points and n_noise add up to total_points.
C17_CountsAgree ==
    (pc \in {"metrics", "centers", "stats"}) =>
        /\ metrics.kind = "ok"
        /\ result.n_clusters =
             Cardinality({result.labels[k] : k \in DOMAIN result.labels} \ {Noise})
        /\ result.n_noise =
             Cardinality({k \in DOMAIN result.labels : result.labels[k] = Noise})
        /\ metrics.n_clusters = result.n_clusters
        /\ metrics.n_noise = result.n_noise
        /\ metrics.clustered_points + metrics.n_noise = Len(df)

\* a run that found a cluster and left a noise point
C17_Witness ==
    /\ pc = "metrics"
    /\ metrics.kind = "ok"
    /\ result.n_clusters >= 1
    /\ result.n_noise >= 1

\* ---- the summaries against the labels ---------------------------------------
GivenIds == {result.labels[k] : k \in DOMAIN result.labels} \ {Noise}
Members(c) == {k \in DOMAIN result.labels : result.labels[k] = c}
\* the rational m = <<numerator, denominator>> is the mean of column c of df
\* over the rows S
IsMeanOf(m, S, c) == m[2] > 0 /\ m[1] * Cardinality(S) = ColumnSum(df, S, c) * m[2]
RECURSIVE PointsUpTo(_, _)
PointsUpTo(rows, n) ==
    IF n = 0 THEN 0 ELSE rows[n].number_of_points + PointsUpTo(rows, n - 1)

\* C18: under SpecSummary, calculate_cluster_stats and get_cluster_centers
\* return one entry per distinct label other than -1, by increasing label;
\* the centre of an entry is the mean of the X and of the Y of df over
\* exactly the rows with that label, its count is the number of those rows,
\* and the counts add up to the number of rows not labelled -1.
C18_PerClusterSummary ==
    /\ cluster_df.kind = "ok" =>
         LET rows == cluster_df.rows IN
           /\ {rows[n].cluster_id : n \in DOMAIN rows} = GivenIds
           /\ \A m, n \in DOMAIN rows : m < n => rows[m].cluster_id < rows[n].cluster_id
           /\ \A n \in DOMAIN rows :
                /\ rows[n].number_of_points = Cardinality(Members(rows[n].cluster_id))
                /\ IsMeanOf(rows[n].center_longitude, Members(rows[n].cluster_id), 1)
                /\ IsMeanOf(rows[n].center_latitude, Members(rows[n].cluster_id), 2)
           /\ PointsUpTo(rows, Len(rows)) =
                Cardinality({k \in DOMAIN result.labels : result.labels[k] # Noise})
    /\ mean_location_clusters.kind = "ok" =>
         LET rows == mean_location_clusters.rows IN
           /\ Len(rows) = Cardinality(GivenIds)
           /\ \A n \in DOMAIN rows : \A c \in GivenIds :
                Cardinality({b \in GivenIds : b < c}) = n - 1 =>
                    /\ IsMeanOf(rows[n][1], Members(c), 1)
                    /\ IsMeanOf(rows[n][2], Members(c), 2)

\* labels with a noise row and a cluster of two rows at different places
C18_Witness ==
    /\ pc = "stats"
    /\ cluster_df.kind = "ok"
    /\ mean_location_clusters.kind = "ok"
    /\ \E k \in DOMAIN result.labels : result.labels[k] = Noise
    /\ \E n \in DOMAIN cluster_df.rows :
         /\ cluster_df.rows[n].number_of_points >= 2
         /\ \E a, b \in Members(cluster_df.rows[n].cluster_id) : df[a] # df[b]

\* C19: under SpecSummary, the summaries of the empty label sequence with the
\* empty frame do not raise: get_clustering_metrics reports zero clusters,
\* zero noise points and zero clustered points, and the per-cluster summaries
\* have no entry.
C19_EmptySummaries ==
    Len(result.labels) = 0 =>
        /\ pc # "raised"
        /\ metrics.kind \in {"none", "ok"}
        /\ metrics.kind = "ok" =>
             /\ metrics.n_clusters = 0
             /\ metrics.n_noise = 0
             /\ metrics.clustered_points = 0
        /\ mean_location_clusters.kind = "ok" => mean_location_clusters.rows = <<>>
        /\ cluster_df.kind = "ok" => cluster_df.rows = <<>>

\* the per-cluster half of it
C19_EmptyPerCluster ==
    Len(result.labels) = 0 =>
        /\ mean_location_clusters.kind \in {"none", "ok"}
        /\ cluster_df.kind \in {"none", "ok"}
        /\ mean_location_clusters.kind = "ok" => mean_location_clusters.rows = <<>>
        /\ cluster_df.kind = "ok" => cluster_df.rows = <<>>

\* C20: under SpecScenario, run_dbscan on the five points of Scenario A in
\* their order, with eps = 0.1 and min_samples = 4, returns label 0 for the
\* four close points and -1 for (10, 10), one cluster and one noise point.
C20_ScenarioA ==
    (pc \in {"done", "raised"} /\ df = ScenarioA /\ eps = 1 /\ eps_den = 10 /\ min_samples = 4)
        => /\ result.kind = "ok"
           /\ result.labels = <<0, 0, 0, 0, 0 - 1>>
           /\ result.n_clusters = 1
           /\ result.n_noise = 1

C20_Witness ==
    /\ pc = "done"
    /\ df = ScenarioA
    /\ min_samples = 4
    /\ data_range = <<1000, 1000>>
    /\ \A k \in 1..4 : neighborhoods[k] = 1..4
    /\ neighborhoods[5] = {5}

\* ---- scenarios on the frames of SpecPage -------------------------------------
\* run_dbscan has returned (the page may have gone on to its summaries)
HasReturned == result.kind = "ok"
HasEnded == pc \notin {"scale", "fit", "scan", "expand"}
AllIdentical == Len(df) >= 1 /\ \A a, b \in DOMAIN df : df[a] = df[b]

\* C21: under SpecPage, a call on n >= 1 identical points with eps > 0 and
\* min_samples >= 1 returns; both scaled columns are 0 over 1; with
\* min_samples <= n every label is 0 (one cluster, no noise), and with
\* min_samples > n every label is -1 (no cluster).
C21_IdenticalPoints ==
    (HasEnded /\ AllIdentical /\ eps > 0 /\ min_samples >= 1) =>
        /\ HasReturned
        /\ data_range = <<1, 1>>
        /\ \A k \in DOMAIN df : df_scaled[k] = <<0, 0>>
        /\ DOMAIN result.labels = DOMAIN df
        /\ min_samples <= Len(df) =>
             /\ \A k \in DOMAIN df : result.labels[k] = 0
             /\ result.n_clusters = 1
             /\ result.n_noise = 0
        /\ min_samples > Len(df) =>
             /\ \A k \in DOMAIN df : result.labels[k] = 0 - 1
             /\ result.n_clusters = 0
             /\ result.n_noise = Len(df)

\* several identical points away from the origin, exactly min_samples of them
C21_Witness ==
    /\ HasReturned
    /\ AllIdentical
    /\ Len(df) >= 2
    /\ min_samples = Len(df)
    /\ df[1] # <<0, 0>>
    /\ \A k \in DOMAIN df : result.labels[k] = 0

\* no two different rows of the scaled frame are within eps of each other
NoTwoWithinEps ==
    \A a, b \in DOMAIN df_scaled : a # b =>
        (Sq(df_scaled[a][1] - df_scaled[b][1]) * Sq(data_range[2])
           + Sq(df_scaled[a][2] - df_scaled[b][2]) * Sq(data_range[1])) * Sq(eps_den)
        > Sq(eps) * Sq(data_range[1]) * Sq(data_range[2])

\* C22: under SpecPage, a call with min_samples = 2 that has returned for a
\* frame in which no two different rows are within eps of each other has no
\* core point, labels every row -1 and counts 0 clusters.
C22_ScenarioD ==
    (HasReturned /\ min_samples = 2 /\ NoTwoWithinEps) =>
        /\ \A k \in DOMAIN df : Cardinality(neighborhoods[k]) < 2
        /\ \A k \in DOMAIN df : result.labels[k] = 0 - 1
        /\ result.n_clusters = 0
        /\ result.n_noise = Len(df)

\* three rows at different places, with eps > 0 too small to join any two
C22_Witness ==
    /\ HasReturned
    /\ min_samples = 2
    /\ eps > 0
    /\ Len(df) >= 3
    /\ NoTwoWithinEps

\* ---- Scenario E: chains -----------------------------------------------------
MaxChainN == 4        \* longest frame drawn for the chain scenario
MaxChainCoord == MaxChainN - 1
\* points on a horizontal and on a diagonal line; a frame holds points of one
\* line, each at most once
HorizontalLine == {<<x, 0>> : x \in 0..MaxChainCoord}
DiagonalLine == {<<x, x>> : x \in 0..MaxChainCoord}
LineFrames(line) ==
    {s \in SeqsUpTo(line, MaxChainN) :
        Len(s) >= 2 /\ \A a, b \in DOMAIN s : a # b => s[a] # s[b]}

InitChain ==
    /\ df \in LineFrames(HorizontalLine) \cup LineFrames(DiagonalLine)
    /\ eps \in 1..MaxEpsNum
    /\ min_samples = 2
    /\ pc = "scale"
    /\ df_scaled = <<>>
    /\ data_range = <<1, 1>>
    /\ neighborhoods = <<>>
    /\ labels = <<>>
    /\ i = 1
    /\ cur = 0
    /\ stack = <<>>
    /\ label_num = 0
    /\ result = [kind |-> "none"]
    /\ cache = <<>>
    /\ calls = 1
    /\ eps_den = EpsDen
    /\ metrics = [kind |-> "none"]
    /\ mean_location_clusters = [kind |-> "none"]
    /\ cluster_df = [kind |-> "none"]
    /\ sf_map = [kind |-> "none"]
    /\ page = "none"
    /\ len_df = Len(df)
    /\ sample_size = Len(df)
    /\ n_sample = Len(df)

SpecChain == InitChain /\ [][Next]_vars

\* scaled rows a and b are less than eps apart
CloserThanEps(a, b) ==
    (Sq(df_scaled[a][1] - df_scaled[b][1]) * Sq(data_range[2])
       + Sq(df_scaled[a][2] - df_scaled[b][2]) * Sq(data_range[1])) * Sq(eps_den)
    < Sq(eps) * Sq(data_range[1]) * Sq(data_range[2])

\* the rows of rest can be lined up after row c, each less than eps from the
\* one before it
RECURSIVE ChainFrom(_, _)
ChainFrom(c, rest) ==
    rest = {} \/ \E v \in rest : CloserThanEps(c, v) /\ ChainFrom(v, rest \ {v})

\* the rows form a linear chain, whatever the order they are stored in
IsChain == \E c \in DOMAIN df_scaled : ChainFrom(c, DOMAIN df_scaled \ {c})

\* C23: under SpecChain, a call with min_samples = 2 that has returned for
\* n >= 2 rows forming a linear chain (consecutive rows less than eps apart in
\* the scaled frame) labels every row 0 and counts one cluster and no noise.
C23_ScenarioE ==
    (Returned /\ min_samples = 2 /\ Len(df) >= 2 /\ IsChain) =>
        /\ \A k \in DOMAIN df : result.labels[k] = 0
        /\ result.n_clusters = 1
        /\ result.n_noise = 0

\* a chain of four rows stored out of chain order, its ends more than eps apart
C23_Witness ==
    /\ Returned
    /\ Len(df) = 4
    /\ IsChain
    /\ ~(\A k \in 1..(Len(df) - 1) : CloserThanEps(k, k + 1))
    /\ \E a, b \in DOMAIN df : ~WithinEpsOver(df_scaled, data_range, eps, eps_den, a, b)
    /\ \A k \in DOMAIN df : result.labels[k] = 0

\* ---- label transitions --------------------------------------------------------
\* C24: under SpecPage, every step leaves a label that is a cluster id as it
\* is; a label changes only from -1 (unassigned, and noise if it stays) to the
\* id of the cluster being grown, and the label array, once created all -1 by
\* fit, keeps its length.
C24_OneWayLabels ==
    [][/\ labels = <<>> => \A k \in DOMAIN labels' : labels'[k] = Noise
       /\ labels # <<>> =>
            /\ DOMAIN labels' = DOMAIN labels
            /\ \A k \in DOMAIN labels :
                 /\ labels[k] # Noise => labels'[k] = labels[k]
                 /\ labels'[k] # labels[k] => labels'[k] = label_num /\ label_num >= 0]_vars

\* a point the outer scan passed over as a non-core point, left at -1, was
\* later taken into a cluster
C24_Witness ==
    /\ HasReturned
    /\ \E k \in DOMAIN result.labels :
         /\ result.labels[k] = 0
         /\ \A j \in 1..k : ~IsCore(neighborhoods, min_samples, j)

\* ---- termination --------------------------------------------------------------
\* run_dbscan is one sequential call: it keeps taking steps until it returns
\* or raises
MaxLiveN == 4      \* longest frame drawn for the termination runs
LivePoints == {<<0, 0>>, <<0, 1>>, <<1, 1>>}

InitLive ==
    /\ df \in SeqsUpTo(LivePoints, MaxLiveN)
    /\ eps \in EpsValues
    /\ min_samples \in 0..MaxLiveN
    /\ pc = "scale"
    /\ df_scaled = <<>>
    /\ data_range = <<1, 1>>
    /\ neighborhoods = <<>>
    /\ labels = <<>>
    /\ i = 1
    /\ cur = 0
    /\ stack = <<>>
    /\ label_num = 0
    /\ result = [kind |-> "none"]
    /\ cache = <<>>
    /\ calls = 1
    /\ eps_den = EpsDen
    /\ metrics = [kind |-> "none"]
    /\ mean_location_clusters = [kind |-> "none"]
    /\ cluster_df = [kind |-> "none"]
    /\ sf_map = [kind |-> "none"]
    /\ page = "none"
    /\ len_df = Len(df)
    /\ sample_size = Len(df)
    /\ n_sample = Len(df)

SpecLive == InitLive /\ [][Next]_vars /\ WF_vars(Next)

\* a step of the inner loop that pushed at least one neighbour
PushedNeighbours == pc = "expand" /\ pc' = "expand" /\ Len(stack') >= Len(stack)

\* C25: under SpecLive, every call ends (it returns or raises); when it
\* returns, the stack is empty, the outer scan has passed every index and no
\* core point is left unlabelled; and a step pushes neighbours only for an
\* unlabelled core point, which it labels in the same step, so that no
\* point's neighbourhood is expanded twice.
C25_Termination ==
    /\ <>(pc = "done" \/ pc = "raised")
    /\ [](pc = "done" =>
            /\ stack = <<>>
            /\ i = Len(labels) + 1
            /\ \A k \in Cores : labels[k] # Noise)
    /\ [][PushedNeighbours =>
            /\ Unlabelled(labels, cur)
            /\ IsCore(neighborhoods, min_samples, cur)
            /\ labels'[cur] = label_num]_vars

\* a point pushed twice is popped the second time, already labelled
C25_Witness ==
    /\ pc = "expand"
    /\ ~Unlabelled(labels, cur)
    /\ IsCore(neighborhoods, min_samples, cur)
    /\ stack # <<>>

\* ---- the order in which pushed points are taken up -----------------------------
\* the stack without its entry at position p
\* (RemoveAtAndAbove: the entries above p dropped with it)
RemoveAtAndAbove(st, p) == SubSeq(st, 1, p - 1)
RemoveAt(st, p) == SubSeq(st, 1, p - 1) \o SubSeq(st, p + 1, Len(st))

\* one iteration of `while True` with the entry to continue from left open:
\* p = Len(st1) is the stack.back() of dbscan_inner, p = 1 a queue, the
\* smallest entry an index order
ExpandAny ==
    /\ pc = "expand"
    /\ \E order \in Orders(PushSet(neighborhoods, min_samples, labels, cur, label_num)) :
         LET st1 == stack \o order IN
           /\ labels' = VisitLabels(labels, cur, label_num)
           /\ IF Len(st1) = 0
                THEN /\ stack' = st1
                     /\ label_num' = NextLabelNum(label_num)
                     /\ i' = i + 1
                     /\ pc' = "scan"
                     /\ UNCHANGED cur
                ELSE \E p \in 1..Len(st1) :
                     /\ cur' = st1[p]
                     /\ stack' = RemoveAt(st1, p)
                     /\ UNCHANGED <<label_num, i, pc>>
    /\ UNCHANGED <<df, eps, min_samples, df_scaled, data_range, neighborhoods, result>>
    /\ UNCHANGED <<eps_den, cache, calls, pagevars, uivars>>

NextFrontier == Scale \/ Fit \/ ScanSkip \/ ScanStart \/ ExpandAny \/ Stats

SpecFrontier == InitLive /\ [][NextFrontier]_vars

\* rows a and b are in the same cluster of l, or both noise
SameGroup(l, a, b) == l[a] = l[b]

\* C26: under SpecFrontier, whichever pushed point each iteration continues
\* from, a call that returns gives the labels that the last-in-first-out run
\* in index order gives: the same noise points and the same grouping of the
\* rows into clusters, under the same ids.
C26_FrontierOrder ==
    Returned =>
        LET l == RunLabels(df, eps, min_samples) IN
          /\ result.labels = l
          /\ \A k \in DOMAIN df : (result.labels[k] = Noise) = (l[k] = Noise)
          /\ \A a, b \in DOMAIN df : SameGroup(result.labels, a, b) = SameGroup(l, a, b)

\* a run that returned after a core point pushed several neighbours, so that
\* there was more than one entry to continue from, with a border point
C26_Witness ==
    /\ Returned
    /\ \E k \in Cores : Cardinality(neighborhoods[k]) >= 4
    /\ \E k \in DOMAIN result.labels :
         result.labels[k] # Noise /\ ~IsCore(neighborhoods, min_samples, k)

\* ---- cluster sizes --------------------------------------------------------------
\* calls on the arrangements of the bridge layout (two dense ends joined by a
\* point within eps of a core point of each) and of the chain layout (a row
\* of points and one point away from it)
InitBridge ==
    /\ df \in Arrangements(BridgePoints) \cup Arrangements(ChainPoints)
    /\ eps \in BridgeEps
    /\ min_samples \in 1..(MaxN + 2)
    /\ pc = "scale"
    /\ df_scaled = <<>>
    /\ data_range = <<1, 1>>
    /\ neighborhoods = <<>>
    /\ labels = <<>>
    /\ i = 1
    /\ cur = 0
    /\ stack = <<>>
    /\ label_num = 0
    /\ result = [kind |-> "none"]
    /\ cache = <<>>
    /\ calls = 1
    /\ eps_den = EpsDen
    /\ metrics = [kind |-> "none"]
    /\ mean_location_clusters = [kind |-> "none"]
    /\ cluster_df = [kind |-> "none"]
    /\ sf_map = [kind |-> "none"]
    /\ page = "none"
    /\ len_df = Len(df)
    /\ sample_size = Len(df)
    /\ n_sample = Len(df)

SpecBridge == InitBridge /\ [][Next]_vars

ClusterIds == {result.labels[k] : k \in DOMAIN result.labels} \ {Noise}
ClusterMembers(c) == {k \in DOMAIN result.labels : result.labels[k] = c}

\* C27 as stated: under SpecBridge, every cluster of a returned result has at
\* least min_samples member points.
C27_MinimumClusterSize ==
    Returned => \A c \in ClusterIds : Cardinality(ClusterMembers(c)) >= min_samples

\* C27 amended: under SpecBridge, every cluster of a returned result holds a
\* core point; the neighbourhood of each of its core points has at least
\* min_samples points, each of them a member of this cluster or of one with a
\* smaller id; the cluster with id 0 has at least min_samples members.
C27_ClusterHasDenseCore ==
    Returned =>
        \A c \in ClusterIds :
            /\ ClusterMembers(c) \cap Cores # {}
            /\ \A k \in ClusterMembers(c) \cap Cores :
                 /\ Cardinality(neighborhoods[k]) >= min_samples
                 /\ \A v \in neighborhoods[k] : result.labels[v] \in 0..c
            /\ c = 0 => Cardinality(ClusterMembers(c)) >= min_samples

\* a returned cluster with fewer than min_samples members
C27_Witness ==
    /\ Returned
    /\ \E c \in ClusterIds :
         /\ Cardinality(ClusterMembers(c)) < min_samples
         /\ \E k \in ClusterMembers(c) : k \in Cores

\* ---- the markers of the cluster centres ------------------------------------------
\* C28: under SpecPage, for a result of run_dbscan the entry at position n
\* (counted from 0) of get_cluster_centers is the mean X and mean Y of the
\* rows labelled n; the map has one marker per cluster, the marker at
\* position n shows the number of rows labelled n, which is at least 1, and
\* stands at that centre; with no cluster there is no entry and no marker.
C28_CentreIndexing ==
    /\ (HasReturned /\ mean_location_clusters.kind = "ok") =>
         LET rows == mean_location_clusters.rows IN
           /\ Len(rows) = result.n_clusters
           /\ \A n \in DOMAIN rows :
                /\ Members(n - 1) # {}
                /\ IsMeanOf(rows[n][1], Members(n - 1), 1)
                /\ IsMeanOf(rows[n][2], Members(n - 1), 2)
    /\ (HasReturned /\ sf_map.kind = "ok") =>
         LET markers == sf_map.markers IN
           /\ Len(markers) = result.n_clusters
           /\ \A n \in DOMAIN markers :
                /\ markers[n].index = n - 1
                /\ markers[n].cluster_size = Cardinality(Members(n - 1))
                /\ markers[n].cluster_size >= 1
                /\ markers[n].location =
                     <<mean_location_clusters.rows[n][2], mean_location_clusters.rows[n][1]>>
           /\ result.n_clusters = 0 => markers = <<>>

\* a map with the markers of two clusters of different sizes
C28_Witness ==
    /\ HasReturned
    /\ sf_map.kind = "ok"
    /\ Len(sf_map.markers) = 2
    /\ sf_map.markers[1].cluster_size # sf_map.markers[2].cluster_size

\* a map drawn for a result without clusters
C28_WitnessEmpty == HasReturned /\ sf_map.kind = "ok" /\ result.n_clusters = 0

\* ---- the order of the rows -------------------------------------------------------
\* row a stands before row b in the frame sorted by X, then Y, rows that are
\* equal keeping their order
StandsBefore(a, b) ==
    \/ df[a][1] < df[b][1]
    \/ df[a][1] = df[b][1] /\ df[a][2] < df[b][2]
    \/ df[a] = df[b] /\ a < b
\* the position of row k in the sorted frame
Rank(k) == 1 + Cardinality({j \in DOMAIN df : StandsBefore(j, k)})
\* the sorted frame: the same rows in another order
SortedFrame == [n \in DOMAIN df |-> df[CHOOSE k \in DOMAIN df : Rank(k) = n]]

\* C29: under SpecBridge, whose frames are all the orders of the same rows,
\* a call that returns has the noise rows and the grouping of the core rows
\* that the call on the sorted frame has: a row is labelled -1 in one exactly
\* if it is in the other, and two core rows share a cluster in one exactly if
\* they do in the other.
C29_OrderInvariance ==
    Returned =>
        \A sorted \in {SortedFrame} :
        \A l \in {RunLabels(sorted, eps, min_samples)} :
           /\ \A k \in DOMAIN df : (result.labels[k] = Noise) = (l[Rank(k)] = Noise)
           /\ \A a, b \in Cores :
                (result.labels[a] = result.labels[b]) = (l[Rank(a)] = l[Rank(b)])

\* an order of the rows for which a border row lands in another cluster than
\* in the sorted frame, with noise in the result
C29_Witness ==
    /\ Returned
    /\ \E sorted \in {SortedFrame} :
       \E l \in {RunLabels(sorted, eps, min_samples)} :
       \E a, b \in DOMAIN df :
           /\ result.labels[a] = result.labels[b]
           /\ l[Rank(a)] # l[Rank(b)]

\* an order of the rows of a result with core, border and noise rows
C29_WitnessNoise ==
    /\ Returned
    /\ Cores # {}
    /\ Borders # {}
    /\ \E k \in DOMAIN df : result.labels[k] = Noise
    /\ \E k \in DOMAIN df : Rank(k) # k

\* ---- the pages that call run_dbscan ------------------------------------------------
\* eps is counted in thousandths: the literals of the sliders and of the
\* settings have three decimals
EpsSliderDen == 1000
EpsSliderMin == 1            \* min_value=0.001
EpsSliderMax == 50           \* max_value=0.050
EpsSliderStep == 1           \* step=0.001
MinSamplesSliderMin == 50
MinSamplesSliderMax == 1000
MinSamplesSliderStep == 50
SampleSizeSliderMin == 10000
SampleSizeSliderStep == 10000
SampleSizeSliderDefault == 50000
DEFAULT_EPS == 20            \* 0.020
DEFAULT_MIN_SAMPLES == 500
MapsSampleSize == 50000
SummarySampleSize == 50000

MaxDatasetSteps == 15        \* largest data set drawn, in steps of the slider
\* lengths of the data set around the steps of the sample size slider
DatasetLens ==
    {k * SampleSizeSliderStep + d : k \in 0..MaxDatasetSteps, d \in {0, 1, 500, 9999}}

Min2(a, b) == IF a < b THEN a ELSE b

\* the values a slider can hold: min_value, min_value + step, ... up to max_value
SliderValues(lo, hi, step) == {lo + k * step : k \in 0..((hi - lo) \div step)}

\* (EpsSliderValuesFromZero: min_value=0.000)
EpsSliderValuesFromZero == SliderValues(0, EpsSliderMax, EpsSliderStep)
EpsSliderValues == SliderValues(EpsSliderMin, EpsSliderMax, EpsSliderStep)
MinSamplesSliderValues ==
    SliderValues(MinSamplesSliderMin, MinSamplesSliderMax, MinSamplesSliderStep)
\* the sample size slider runs to len(df), which need not be on a step, and
\* starts at min(50000, len(df)), which need not be either
SampleSizeSliderValues(n) ==
    SliderValues(SampleSizeSliderMin, n, SampleSizeSliderStep)
        \cup {n, Min2(SampleSizeSliderDefault, n)}

InitSliders ==
    /\ len_df \in DatasetLens
    /\ page = "none"
    /\ sample_size = 0
    /\ n_sample = 0
    /\ pc = "page"
    /\ df = <<>>
    /\ eps = 0
    /\ eps_den = EpsSliderDen
    /\ min_samples = 0
    /\ df_scaled = <<>>
    /\ data_range = <<1, 1>>
    /\ neighborhoods = <<>>
    /\ labels = <<>>
    /\ i = 1
    /\ cur = 0
    /\ stack = <<>>
    /\ label_num = 0
    /\ result = [kind |-> "none"]
    /\ cache = <<>>
    /\ calls = 0
    /\ metrics = [kind |-> "none"]
    /\ mean_location_clusters = [kind |-> "none"]
    /\ cluster_df = [kind |-> "none"]
    /\ sf_map = [kind |-> "none"]

\* render_dbscan_clustering_page up to the call of run_dbscan: st.slider
\* refuses a min_value above its max_value
RenderDbscanClusteringPage ==
    /\ pc = "page"
    /\ page' = "dbscan_clustering"
    /\ IF SampleSizeSliderMin > len_df
         THEN /\ pc' = "raised"
              /\ result' = [kind |-> "StreamlitAPIException"]
              /\ UNCHANGED <<eps, min_samples, sample_size, n_sample, calls>>
         ELSE /\ eps' \in EpsSliderValues
              /\ min_samples' \in MinSamplesSliderValues
              /\ sample_size' \in SampleSizeSliderValues(len_df)
              /\ n_sample' = Min2(sample_size', len_df)
              /\ pc' = "invoked"
              /\ calls' = calls + 1
              /\ UNCHANGED result
    /\ UNCHANGED <<df, eps_den, len_df, df_scaled, data_range, neighborhoods, labels,
                   i, cur, stack, label_num, cache, pagevars>>

\* render_interactive_maps_page up to the call of run_dbscan
RenderInteractiveMapsPage ==
    /\ pc = "page"
    /\ page' = "interactive_maps"
    /\ sample_size' = Min2(MapsSampleSize, len_df)
    /\ n_sample' = sample_size'
    /\ eps' = DEFAULT_EPS
    /\ min_samples' = DEFAULT_MIN_SAMPLES
    /\ pc' = "invoked"
    /\ calls' = calls + 1
    /\ UNCHANGED <<df, eps_den, len_df, df_scaled, data_range, neighborhoods, labels,
                   i, cur, stack, label_num, result, cache, pagevars>>

\* render_summary_page up to the call of run_dbscan
RenderSummaryPage ==
    /\ pc = "page"
    /\ page' = "summary"
    /\ sample_size' = Min2(SummarySampleSize, len_df)
    /\ n_sample' = sample_size'
    /\ eps' = DEFAULT_EPS
    /\ min_samples' = DEFAULT_MIN_SAMPLES
    /\ pc' = "invoked"
    /\ calls' = calls + 1
    /\ UNCHANGED <<df, eps_den, len_df, df_scaled, data_range, neighborhoods, labels,
                   i, cur, stack, label_num, result, cache, pagevars>>

NextSliders == RenderDbscanClusteringPage \/ RenderInteractiveMapsPage \/ RenderSummaryPage

SpecSliders == InitSliders /\ [][NextSliders]_vars

\* C30: under SpecSliders, whenever a page calls run_dbscan, eps is above 0,
\* min_samples is at least 1, and the sample has min(sample_size, len(df))
\* rows, which is at least one row if the data set has any.
C30_PreconditionsRespected ==
    pc = "invoked" =>
        /\ eps > 0 /\ eps_den > 0
        /\ min_samples >= 1
        /\ n_sample = Min2(sample_size, len_df)
        /\ n_sample <= len_df
        /\ len_df > 0 => n_sample > 0
        /\ page \in {"interactive_maps", "summary"} =>
             /\ eps = DEFAULT_EPS
             /\ min_samples = DEFAULT_MIN_SAMPLES
             /\ n_sample = Min2(50000, len_df)

\* the clustering page calling with the smallest eps and min_samples of its
\* sliders and a sample smaller than the data set
C30_Witness ==
    /\ pc = "invoked"
    /\ page = "dbscan_clustering"
    /\ eps = EpsSliderMin
    /\ min_samples = MinSamplesSliderMin
    /\ n_sample = sample_size
    /\ sample_size < len_df

\* the maps page calling for a data set smaller than its 50000 rows
C30_WitnessSmall ==
    /\ pc = "invoked"
    /\ page = "interactive_maps"
    /\ len_df > 0
    /\ n_sample = len_df

====
